---- MODULE Spec2Model ----
(***************************************************************************)
(* Model of the path tracer's pixel scheduler (Raytracer::BeginRender,     *)
(* Raytracer::RenderPixels), of the command-line driver (main) and of the  *)
(* control flow of the path integrator (Raytracer::tracePath,              *)
(* Raytracer::materialSample), with the intersection tests, the scene      *)
(* searches, the material sampler, the Halton sampler and randomLight.     *)
(*                                                                         *)
(* Floating-point scalars are exact rationals: a distance is an integer    *)
(* number of thousandths, a radiance sample an integer number of quarters, *)
(* and the averaged pixel colour a record [num, den].                      *)
(***************************************************************************)
EXTENDS Integers, Sequences, FiniteSets, TLC

\* ------------------------------------------------------------------ bounds
MaxPixels == 2          \* largest image size W*H explored
MaxHC == 5              \* largest hardware_concurrency() explored
MaxSamples == 2         \* largest small per-pixel sample budget explored
MaxArgc == 4            \* largest argc explored

\* ------------------------------------------------------- program constants
SampleMaxMain == 256    \* Raytracer tracer(256, 256)
BounceCap == 2000       \* bounce >= 2000 returns black
FallbackThreads == 8    \* if (n == 0) n = 8
BIGFLOAT == 1000000000  \* "infinite" hit distance, in thousandths
SigA == 150             \* sig_a = 0.15 (thousandths)
SigS == 60              \* sig_s = 0.06 (thousandths)
SigT == SigA + SigS     \* sig_t = sig_a + sig_s
EXIT_SUCCESS == 0
EXIT_FAILURE == 1


VARIABLES
    \* main(); savedImage holds the buffer handed to SaveImage, once saved
    argc, pcMain, exitCode, loadResult, savedImage,
    \* Raytracer / Renderer fields
    sampleMax, width, height, numPixels, next, isRendering, lightsRenderable,
    \* scene (filled by the loader)
    sceneLights, scene, background, sRGB,
    \* RenderImage
    img, zbuf, sampleCount, numRenderedPixels,
    \* worker threads
    hwConcurrency, debugBuild, nThreads,
    wpc, index, rng, firstIndex, S1, zMin, sampNum, color,
    \* history of the run; sampled[idx] lists, in the order taken, the sample
    \* number and the z of every sample of pixel idx
    writers, doneSetters, drawn, sampled,
    \* path integrator
    ppc, bounce, hit, isLight, hitZ, retFrom, retColor, calls, radianceEvaluated,
    \* ray casting: the hit record, the last intersection test, how many
    \* tests the running TraceRay has made
    gpc, hInfo, lastTest, tests,
    \* scene-graph search: the graph and lights the ray meets, the SearchTree
    \* call stack, the value last returned, the nodes that lifted the record,
    \* and the locals of (Shadow)TraceRay and of the shadow test
    graph, stack, searchRet, lifted, hitObj, hitLight, lightPos, verdict,
    \* material sampling: the inputs of MtlBlinn::GenerateSample, the
    \* normalised lobe weights, and the locals of materialSample; misDens
    \* lists the denominators of the MIS weights evaluated so far
    mpc, mtl, pow, mInfo, mDir, sample, matToL, matColor, lightColor, misDens,
    recursed, total,
    \* the arguments and the result of the last SampleGenerator::GetSample
    sampleCoords,
    \* the last call of randomLight: its caller, the value of RandomInt and
    \* what the modulo produced
    myRand,
    \* samplePixel: info is the HitInfo of RenderPixels it passes to tracePath
    \* (its z), onInfo says whether the running activation's hInfo is that
    \* record, cameraZ is the distance TraceRay found for the camera ray
    info, onInfo, cameraZ

mainVars == <<argc, pcMain, exitCode, loadResult, savedImage>>
tracerVars == <<sampleMax, width, height, numPixels, next, isRendering, lightsRenderable>>
sceneVars == <<sceneLights, scene, background, sRGB>>
imageVars == <<img, zbuf, sampleCount, numRenderedPixels>>
threadVars == <<hwConcurrency, debugBuild, nThreads>>
workerVars == <<wpc, index, rng, firstIndex, S1, zMin, sampNum, color>>
historyVars == <<writers, doneSetters, drawn, sampled>>
pathVars == <<ppc, bounce, hit, isLight, hitZ, retFrom, retColor, calls, radianceEvaluated>>
searchVars == <<graph, stack, searchRet, lifted, hitObj, hitLight, lightPos, verdict>>
geomVars == <<gpc, hInfo, lastTest, tests, searchVars>>
mtlVars == <<mpc, mtl, pow, mInfo, mDir, sample, matToL, matColor, lightColor,
             misDens, recursed, total>>

sampleVars == <<info, onInfo, cameraZ>>

samplerVars == <<sampleCoords, myRand, sampleVars>>

vars == <<mainVars, tracerVars, sceneVars, imageVars, threadVars, workerVars,
          historyVars, pathVars, geomVars, mtlVars, samplerVars>>

\* ---------------------------------------------------------------- helpers
Latest(a, b) == a

Min(a, b) == IF a < b THEN a ELSE b

\* BeginRender: int n = hardware_concurrency() / 2; if (n == 0) n = 8;
\* #ifndef NDEBUG n = 1; #endif
ThreadCountMinOne(hc, debug) ==
    IF debug THEN 1 ELSE IF hc \div 2 = 0 THEN 1 ELSE hc \div 2

ThreadCount(hc, debug) ==
    IF debug THEN 1
    ELSE IF hc \div 2 = 0 THEN FallbackThreads ELSE hc \div 2

\* hardware_concurrency() values explored when the workers run: those that
\* keep the pool small.  The launch specification explores 0 and 1 as well.
HCValues == 2 .. MaxHC
AllHCValues == 0 .. MaxHC
MaxThreads == IF FallbackThreads > MaxHC \div 2 THEN FallbackThreads ELSE MaxHC \div 2
Workers == 1 .. MaxThreads
SampleBudgets == (1 .. MaxSamples) \cup {SampleMaxMain}
ImageSizes == {s \in (1 .. MaxPixels) \X (1 .. MaxPixels) : s[1] * s[2] <= MaxPixels}
Backgrounds == {2}         \* gray 0.5 (quarters)

\* What the camera rays of a scene meet, how far away, and camera.sRGB
Scenes == {[kind |-> "sky", z |-> BIGFLOAT, sRGB |-> FALSE],
           [kind |-> "surface", z |-> 2000, sRGB |-> TRUE],
           [kind |-> "surface", z |-> 8000, sRGB |-> FALSE],
           [kind |-> "light", z |-> 2000, sRGB |-> TRUE]}

\* -------------------------------------------------------------------- RNG
\* The generator is a deterministic stream: its state is the seed and the
\* number of values drawn so far; a draw yields k/4 for k in 0..3, with
\* period 7.
RNG(seed) == [seed |-> seed, pos |-> 0]

RandomFloat(r) ==
    [val |-> ((r.seed * 3 + r.pos) % 7) % 4, rng |-> [seed |-> r.seed, pos |-> r.pos + 1]]

RandomInt(r) ==
    [val |-> ((r.seed * 3 + r.pos) % 7) % 4, rng |-> [seed |-> r.seed, pos |-> r.pos + 1]]

\* ------------------------------------------------------- one pixel sample
\* tRand = -log(1 - roll) / sig_t for roll = 0, 1/4, 1/2, 3/4 (thousandths)
FreeFlight(roll) == <<0, 1370, 3301, 6601>>[roll + 1]

\* roll < sig_a / sig_t, for roll = k/4
Absorbed(roll) == roll * SigT < SigA * 4

\* What the rest of the path (light sample, new direction, recursion, or the
\* material sample) yields: it draws the light index and two direction
\* values from the same generator; the radiance and the distance left in the
\* hit record are functions of the values drawn.
PathTailOf(l, c, p) ==
    [total |-> 7 * p.val, z |-> <<BIGFLOAT, 1000, BIGFLOAT, 4000>>[c.val + 1],
     rng |-> p.rng]

PathTail(r) ==
    PathTailOf(RandomInt(r),
               RandomFloat(RandomInt(r).rng),
               RandomFloat(RandomFloat(RandomInt(r).rng).rng))

\* tracePath(ray, sInfo, hInfo, 0) for a camera ray, then z = hInfo.z
samplePixelOf(d, t, sc, bg) ==
    LET roll == d.val
        tRand == FreeFlight(roll)
        isHit == sc.kind # "sky"
        z == IF isHit THEN sc.z ELSE BIGFLOAT
    IN  IF tRand < z
        THEN IF Absorbed(roll)
             THEN [color |-> IF ~isHit THEN bg ELSE 0, z |-> z, rng |-> d.rng]
             ELSE [color |-> (SigS * t.total) \div SigT, z |-> t.z, rng |-> t.rng]
        ELSE IF isHit
             THEN IF sc.kind = "light"
                  THEN [color |-> 0, z |-> z, rng |-> d.rng]
                  ELSE [color |-> t.total \div 7, z |-> z, rng |-> t.rng]
             ELSE [color |-> bg, z |-> z, rng |-> d.rng]

samplePixel(r, sc, bg) ==
    CHOOSE s \in {samplePixelOf(d, t, sc, bg) :
                     d \in {RandomFloat(r)}, t \in {PathTail(RandomFloat(r).rng)}} : TRUE

\* one iteration of the sample loop: sInfo.SetPixelSample(sampNum); the
\* sample; if (z < z_min) z_min = z; S1 += sample; ++sampNum
SampleStep(a, sc, bg) ==
    CHOOSE b \in {[S1 |-> a.S1 + s.color, zMin |-> Min(s.z, a.zMin),
                   sampNum |-> a.sampNum + 1, rng |-> s.rng,
                   taken |-> Append(a.taken, [j |-> a.sampNum, z |-> s.z])] :
                      s \in {samplePixel(a.rng, sc, bg)}} : TRUE

\* k consecutive iterations, the first half before the second
RECURSIVE SampleSteps(_, _, _, _)
SampleSteps(k, a, sc, bg) ==
    IF k = 0 THEN a
    ELSE IF k = 1 THEN SampleStep(a, sc, bg)
    ELSE CHOOSE res \in {SampleSteps(k - (k \div 2), half, sc, bg) :
                            half \in {SampleSteps(k \div 2, a, sc, bg)}} : TRUE

\* for (sampNum = 0; sampNum < sampleMax; ++sampNum) { ... }
SampleLoop(max, r, sc, bg) ==
    SampleSteps(max, [S1 |-> 0, zMin |-> BIGFLOAT, sampNum |-> 0, rng |-> r,
                      taken |-> <<>>], sc, bg)

\* Color color = S1 / float(sampNum + 1); S1 is in quarters
Average(s1, n) == [num |-> s1, den |-> 4 * (n + 1)]

\* Color24::ToByte: ClampInt(int(r * 255 + 0.5))
ClampInt(v) == IF v < 0 THEN 0 ELSE IF v > 255 THEN 255 ELSE v

ToByte(c) == ClampInt((2 * 255 * c.num + c.den) \div (2 * c.den))

\* if (camera.sRGB) color = color.Linear2sRGB(); then Color24(color).
\* The sRGB curve is kept symbolic: the stored byte is tagged with the
\* linear colour it encodes.
Encode(c, srgb) ==
    IF srgb THEN [enc |-> "sRGB", num |-> c.num, den |-> c.den]
    ELSE [enc |-> "byte", num |-> ToByte(c), den |-> 255]

\* ------------------------------------------------------------ ray casting
\* A float is a finite number of thousandths or NaN; the infinities are the
\* two values +-Infinity.  Every comparison with NaN is false.
Infinity == 2000000000

F(v) == [nan |-> FALSE, v |-> v]

NaN == [nan |-> TRUE, v |-> 0]

FLess(a, b) == ~a.nan /\ ~b.nan /\ a.v < b.v

FLeq(a, b) == ~a.nan /\ ~b.nan /\ a.v <= b.v

FGeq(a, b) == ~a.nan /\ ~b.nan /\ a.v >= b.v

\* float bias = 0.002;  (Sphere, Plane, PointLight)
Bias == 2

\* float bias = 0.00002;  (TriObj::IntersectTriangle), in hundred-thousandths
TriBias == 2

HIT_FRONT == "HIT_FRONT"
HIT_BACK == "HIT_BACK"
HIT_FRONT_AND_BACK == "HIT_FRONT_AND_BACK"
HitSides == {HIT_FRONT, HIT_BACK, HIT_FRONT_AND_BACK}

\* hInfo.Init(): z = BIGFLOAT and no node, no light.  `frame` is the list of
\* nodes whose FromNodeCoords has been applied to p, N and GN since an
\* intersection test last wrote them.
HitInfoInit ==
    [z |-> F(BIGFLOAT), front |-> TRUE, node |-> 0, isLight |-> FALSE,
     light |-> 0, frame |-> <<>>]

\* hInfo.z = t; hInfo.front = front; hInfo.p = ...; hInfo.N = ...; hInfo.GN = ...
HitWritten(h, t, front) == [h EXCEPT !.z = t, !.front = front, !.frame = <<>>]

Miss(h) == [ret |-> FALSE, h |-> h]

Hit(h, t, front) == [ret |-> TRUE, h |-> HitWritten(h, t, front)]

\* Sphere::IntersectRay.  g.deltaNeg is delta < 0, g.t1 and g.t2 are the two
\* roots, g.graze is abs(p.Dot(ray.dir)) <= bias.
SphereIntersectRay(g, h, hitSide) ==
    IF g.deltaNeg THEN Miss(h)
    ELSE IF FLeq(g.t1, F(Bias))
         THEN IF hitSide \in {HIT_BACK, HIT_FRONT_AND_BACK}
              THEN IF FLeq(g.t2, F(Bias)) THEN Miss(h)
                   ELSE IF g.graze THEN Miss(h)
                   ELSE IF FLess(g.t2, h.z) THEN Hit(h, g.t2, FALSE)
                   ELSE Miss(h)
              ELSE Miss(h)
         ELSE IF g.graze THEN Miss(h)
         ELSE IF FLess(g.t1, h.z) THEN Hit(h, g.t1, TRUE)
         ELSE Miss(h)

\* PointLight::IntersectRay: the sphere test with "if (t <= 0) return false"
PointLightIntersectRay(g, h, hitSide) ==
    IF g.deltaNeg THEN Miss(h)
    ELSE IF FLeq(g.t1, F(0)) THEN Miss(h)
    ELSE SphereIntersectRay(g, h, hitSide)

\* SpotLight::IntersectRay.  g.facing is rayDir.Dot(normDir) >= 0 and
\* g.inCone is hitRadius <= radius; the sphere test has written hInfo by the
\* time the cone is tested.
SpotLightIntersectRay(g, h, hitSide) ==
    IF ~g.facing THEN Miss(h)
    ELSE IF ~PointLightIntersectRay(g, h, hitSide).ret THEN Miss(h)
    ELSE IF ~g.inCone THEN [ret |-> FALSE, h |-> PointLightIntersectRay(g, h, hitSide).h]
    ELSE PointLightIntersectRay(g, h, hitSide)

\* float t = -ray.p.z / ray.dir.z;
PlaneT(r) ==
    IF r.dz = 0
    THEN IF r.pz = 0 THEN NaN
         ELSE IF r.pz < 0 THEN F(Infinity) ELSE F(-Infinity)
    ELSE F((-r.pz * 1000) \div r.dz)

\* Vec3f x = ray.p + t*ray.dir;  (one component)
PlaneX(pc, dc, t) ==
    IF t.nan THEN NaN
    ELSE IF t.v = Infinity \/ t.v = -Infinity
         THEN IF dc = 0 THEN NaN
              ELSE IF (t.v > 0) = (dc > 0) THEN F(Infinity) ELSE F(-Infinity)
    ELSE F(pc + (t.v * dc) \div 1000)

\* if (x.x < -1 || x.x > 1 || x.y < -1 || x.y > 1) return false;
OutsideUnitSquare(x, y) ==
    \/ FLess(x, F(-1000)) \/ FLess(F(1000), x)
    \/ FLess(y, F(-1000)) \/ FLess(F(1000), y)

\* Plane::IntersectRay, for a ray [px, py, pz, dx, dy, dz] in thousandths
PlaneIntersectRay(r, h, hitSide) ==
    IF r.dz > 0 /\ hitSide = HIT_FRONT THEN Miss(h)
    ELSE IF FLeq(PlaneT(r), F(Bias)) THEN Miss(h)
    ELSE IF FGeq(PlaneT(r), h.z) THEN Miss(h)
    ELSE IF OutsideUnitSquare(PlaneX(r.px, r.dx, PlaneT(r)), PlaneX(r.py, r.dy, PlaneT(r)))
         THEN Miss(h)
    ELSE Hit(h, PlaneT(r), r.dz < 0)

\* TriObj::IntersectTriangle.  g.cos is the sign class of cosTheta against
\* the bias, g.t the plane distance, g.inside the result of the area test.
IntersectTriangle(g, h, hitSide) ==
    IF g.cos = "parallel" THEN Miss(h)
    ELSE IF g.cos = "back" /\ hitSide = HIT_FRONT THEN Miss(h)
    ELSE IF ~g.t.nan /\ g.t.v * 100 <= TriBias THEN Miss(h)
    ELSE IF FGeq(g.t, h.z) THEN Miss(h)
    ELSE IF ~g.inside THEN Miss(h)
    ELSE Hit(h, g.t, g.cos = "front")

\* what a test leaves behind for inspection: which shape, what it returned,
\* the hit record it was given and, for a plane, the ray's dir.z
NoTest == [kind |-> "none", ret |-> FALSE, before |-> HitInfoInit, dz |-> 0]

\* no scene graph chosen yet
NoGraph == [parent |-> <<>>, obj |-> <<>>, lights |-> <<>>, sampled |-> 0]

NoVerdict == [material |-> "none", medium |-> "none"]

\* ----------------------------------------------------------------- colours
\* A colour channel is zero ("0"), a positive number ("+") or NaN ("nan");
\* colours are never negative.
Black == [r |-> "0", g |-> "0", b |-> "0"]

White == [r |-> "+", g |-> "+", b |-> "+"]

\* Color::IsBlack: r==0 && g==0 && b==0
IsBlack(c) == c.r = "0" /\ c.g = "0" /\ c.b = "0"

HasNaN(c) == c.r = "nan" \/ c.g = "nan" \/ c.b = "nan"

\* DirSampler::Info::SetVoid: prob = 0, mult = black, lobe = NONE
VoidInfo == [lobe |-> "NONE", prob |-> [num |-> 0, den |-> 1], mult |-> Black]

NoMaterial ==
    [d |-> 0, r |-> 0, t |-> 0, roll |-> 0, cosOutNeg |-> FALSE, hDotVNeg |-> FALSE,
     cosPhi2Neg |-> FALSE, emit |-> Black]

NoPow == [d |-> 0, r |-> 0, t |-> 0, den |-> 4]

\* ------------------------------------------------------------------- Init
NoRng == [seed |-> -1, pos |-> 0]

\* ---------------------------------------------------------- Halton sampler
\* Halton(i, base): the radical inverse of i, as an exact fraction
RECURSIVE Halton(_, _)
Halton(i, base) ==
    IF i = 0 THEN [num |-> 0, den |-> 1]
    ELSE CHOOSE q \in {[num |-> (i % base) * rest.den + rest.num,
                        den |-> rest.den * base] :
                           rest \in {Halton(i \div base, base)}} : TRUE

\* float xCoord = xVals[sampleNum] + offset;
\* if (xCoord > 1.0f) xCoord -= 1.0f;
Wrap(c) == IF c.num > c.den THEN [num |-> c.num - c.den, den |-> c.den] ELSE c

Shifted(x, off) == [num |-> x.num * off.den + off.num * x.den, den |-> x.den * off.den]

\* SampleGenerator::GetSample(sampleNum, offset)
GetSample(sampleNum, offset) ==
    [sampleNum |-> sampleNum, offset |-> offset,
     first |-> Wrap(Shifted(Halton(sampleNum, 2), offset)),
     second |-> Wrap(Shifted(Halton(sampleNum, 3), offset))]

NoLight == [caller |-> "none", rand |-> 0, trapped |-> FALSE, index |-> 0]

NoCoords ==
    [sampleNum |-> -1, offset |-> [num |-> 0, den |-> 1],
     first |-> [num |-> 0, den |-> 1], second |-> [num |-> 0, den |-> 1]]
NoColor == [num |-> 0, den |-> 1]
NoScene == [kind |-> "none", z |-> BIGFLOAT, sRGB |-> FALSE]

InitTracer ==
    /\ argc \in 1 .. MaxArgc
    /\ pcMain = "args"
    /\ exitCode = -1          \* main has not returned
    /\ loadResult = "notloaded"
    /\ savedImage = <<>>
    /\ sampleMax \in SampleBudgets
    /\ width = 0 /\ height = 0 /\ numPixels = 0
    /\ next = 0
    /\ isRendering = FALSE
    /\ lightsRenderable = <<>>
    /\ sceneLights = <<>>
    /\ scene = NoScene
    /\ background = 0
    /\ sRGB = FALSE
    /\ img = <<>>
    /\ zbuf = <<>>
    /\ sampleCount = <<>>
    /\ numRenderedPixels = 0
    /\ debugBuild \in BOOLEAN
    /\ nThreads = 0
    /\ wpc = [w \in Workers |-> "unborn"]
    /\ index = [w \in Workers |-> -1]
    /\ rng = [w \in Workers |-> NoRng]
    /\ firstIndex = [w \in Workers |-> -1]
    /\ S1 = [w \in Workers |-> 0]
    /\ zMin = [w \in Workers |-> BIGFLOAT]
    /\ sampNum = [w \in Workers |-> 0]
    /\ color = [w \in Workers |-> NoColor]
    /\ writers = [img |-> <<>>, zbuf |-> <<>>, sampleCount |-> <<>>]
    /\ doneSetters = {}
    /\ drawn = <<>>
    /\ sampled = <<>>
    /\ ppc = "idle" /\ bounce = 0 /\ hit = FALSE /\ isLight = FALSE
    /\ hitZ = BIGFLOAT /\ retFrom = "none" /\ retColor = "none" /\ calls = 0
    /\ radianceEvaluated = FALSE
    /\ gpc = "idle" /\ hInfo = HitInfoInit /\ lastTest = NoTest /\ tests = 0
    /\ graph = NoGraph /\ stack = <<>> /\ searchRet = FALSE /\ lifted = <<>>
    /\ hitObj = FALSE /\ hitLight = FALSE /\ lightPos = 0 /\ verdict = NoVerdict
    /\ mpc = "idle" /\ mtl = NoMaterial /\ pow = NoPow /\ mInfo = VoidInfo
    /\ mDir = "zero" /\ sample = FALSE /\ matToL = VoidInfo.prob
    /\ matColor = Black /\ lightColor = Black /\ misDens = <<>>
    /\ recursed = FALSE /\ total = Black
    /\ sampleCoords = NoCoords
    /\ myRand = NoLight
    /\ info = [z |-> BIGFLOAT] /\ onInfo = TRUE /\ cameraZ = BIGFLOAT

Init ==
    /\ InitTracer
    /\ hwConcurrency \in HCValues

\* ------------------------------------------------------------------- main
\* if (argc < 2 || argc > 3) return EXIT_FAILURE;
MainCheckArgs ==
    /\ pcMain = "args"
    /\ IF argc < 2 \/ argc > 3
       THEN pcMain' = "exited" /\ exitCode' = EXIT_FAILURE
       ELSE pcMain' = "load" /\ UNCHANGED exitCode
    /\ UNCHANGED <<argc, loadResult, savedImage, tracerVars, sceneVars, imageVars,
                   threadVars, workerVars, historyVars, pathVars, geomVars, mtlVars,
                   samplerVars>>

\* Raytracer::LoadScene: on success the camera and numPixels are set, on
\* failure nothing is; main drops the result.
LoadScene(ok) ==
    IF ok
    THEN \E size \in ImageSizes, sc \in Scenes, bg \in Backgrounds :
            /\ width' = size[1]
            /\ height' = size[2]
            /\ numPixels' = size[1] * size[2]
            /\ scene' = sc
            /\ background' = bg
            /\ sRGB' = sc.sRGB
            /\ sceneLights' = <<[id |-> 1, photonSource |-> TRUE]>>
    ELSE UNCHANGED <<width, height, numPixels, scene, background, sRGB, sceneLights>>

MainLoadScene ==
    /\ pcMain = "load"
    /\ \E ok \in BOOLEAN :
          /\ LoadScene(ok)
          /\ loadResult' = IF ok THEN "loaded" ELSE "failed"
    /\ pcMain' = "viewport"
    /\ UNCHANGED <<argc, exitCode, savedImage, sampleMax, next, isRendering,
                   lightsRenderable, imageVars, threadVars, workerVars,
                   historyVars, pathVars, geomVars, mtlVars, samplerVars>>

\* isRendering = true;  (before the threads are created)
RenderingUnset == FALSE

RenderingSet == TRUE

\* Raytracer::BeginRender
BeginRender ==
    /\ lightsRenderable' =
          lightsRenderable \o SelectSeq(sceneLights, LAMBDA l : l.photonSource)
    /\ nThreads' = ThreadCount(hwConcurrency, debugBuild)
    /\ isRendering' = RenderingSet
    /\ wpc' = [w \in Workers |->
                  IF w <= ThreadCount(hwConcurrency, debugBuild) THEN "start" ELSE wpc[w]]

\* ShowViewport(&tracer, true) starts the render and returns;
\* ShowViewport(&tracer) shows the window.
MainShowViewport ==
    /\ pcMain = "viewport"
    /\ IF argc = 3
       THEN /\ BeginRender
            /\ pcMain' = "poll"
       ELSE /\ pcMain' = "return"
            /\ UNCHANGED <<lightsRenderable, nThreads, isRendering, wpc>>
    /\ UNCHANGED <<argc, exitCode, loadResult, savedImage, sampleMax, width, height,
                   numPixels, next, sceneVars, imageVars, hwConcurrency, debugBuild,
                   index, rng, firstIndex,
                   S1, zMin, sampNum, color, historyVars, pathVars, geomVars, mtlVars,
                   samplerVars>>

\* while (tracer.IsRendering()) {}
MainPoll ==
    /\ pcMain = "poll"
    /\ ~isRendering
    /\ pcMain' = "save"
    /\ UNCHANGED <<argc, exitCode, loadResult, savedImage, tracerVars, sceneVars,
                   imageVars, threadVars, workerVars, historyVars, pathVars, geomVars, mtlVars,
                   samplerVars>>

\* bool saved = SaveImage(image_path); if (!saved) return EXIT_FAILURE;
MainSaveImage ==
    /\ pcMain = "save"
    /\ savedImage' = <<img>>
    /\ \E saved \in BOOLEAN :
          exitCode' = IF saved THEN EXIT_SUCCESS ELSE EXIT_FAILURE
    /\ pcMain' = "exited"
    /\ UNCHANGED <<argc, loadResult, tracerVars, sceneVars, imageVars, threadVars,
                   workerVars, historyVars, pathVars, geomVars, mtlVars,
                   samplerVars>>

\* return EXIT_SUCCESS;
MainReturn ==
    /\ pcMain = "return"
    /\ exitCode' = EXIT_SUCCESS
    /\ pcMain' = "exited"
    /\ UNCHANGED <<argc, loadResult, savedImage, tracerVars, sceneVars, imageVars,
                   threadVars, workerVars, historyVars, pathVars, geomVars, mtlVars,
                   samplerVars>>

\* ------------------------------------------------------- worker threads
\* The buffers and the histories are functions whose domain is the set of
\* indices touched so far.
Store(f, i, v) == (i :> v) @@ f

Logged(f, i) == IF i \in DOMAIN f THEN f[i] ELSE <<>>

Log(f, i, w) == (i :> Append(Logged(f, i), w)) @@ f

\* next++ on std::atomic<int>: one indivisible fetch-and-add
PostIncrementLost(v) == [value |-> v, after |-> v]

PostIncrementTwice(v) == [value |-> v, after |-> v + 2]

PostIncrement(v) == [value |-> v, after |-> v + 1]

\* while (index < numPixels)
LoopContinuesShort(idx, n) == idx < n - 1

LoopContinuesOver(idx, n) == idx <= n

LoopContinues(idx, n) == idx < n

\* RNG rng(index): built once, before the loop
WorkerRngShared(idx) == RNG(0)

WorkerRng(idx) == RNG(idx)

\* SamplerInfo sInfo(rng) is built before the loop too: the body of every
\* pixel draws from the worker's generator as the previous pixel left it
PixelRngReseeded(r, idx) == RNG(idx)

PixelRng(r, idx) == r

\* renderImage.IsRenderDone()
IsRenderDone == numRenderedPixels = width * height

\* int index = next++; RNG rng(index); ... while (index < numPixels)
WorkerStart(w) ==
    /\ wpc[w] = "start"
    /\ LET d == PostIncrement(next)
       IN  /\ next' = d.after
           /\ index' = [index EXCEPT ![w] = d.value]
           /\ firstIndex' = [firstIndex EXCEPT ![w] = d.value]
           /\ rng' = [rng EXCEPT ![w] = WorkerRng(d.value)]
           /\ drawn' = Log(drawn, d.value, w)
           /\ wpc' = [wpc EXCEPT ![w] =
                         IF LoopContinues(d.value, numPixels) THEN "render" ELSE "exit"]
    /\ UNCHANGED <<mainVars, sampleMax, width, height, numPixels, isRendering,
                   lightsRenderable, sceneVars, imageVars, threadVars,
                   S1, zMin, sampNum, color, writers, doneSetters, sampled,
                   pathVars, geomVars, mtlVars, samplerVars>>

\* the loop body up to "Color color = S1 / float(sampNum + 1)": the two
\* per-pixel offsets are drawn, then the samples are taken
WorkerRender(w) ==
    /\ wpc[w] = "render"
    /\ \E r \in {SampleLoop(sampleMax,
                            RandomFloat(RandomFloat(PixelRng(rng[w], index[w])).rng).rng,
                            scene, background)} :
           /\ S1' = [S1 EXCEPT ![w] = r.S1]
           /\ zMin' = [zMin EXCEPT ![w] = r.zMin]
           /\ sampNum' = [sampNum EXCEPT ![w] = r.sampNum]
           /\ rng' = [rng EXCEPT ![w] = r.rng]
           /\ color' = [color EXCEPT ![w] = Average(r.S1, r.sampNum)]
           /\ sampled' = Store(sampled, index[w], r.taken)
    /\ wpc' = [wpc EXCEPT ![w] = "writeImage"]
    /\ UNCHANGED <<mainVars, tracerVars, sceneVars, imageVars, threadVars,
                   index, firstIndex, writers, doneSetters, drawn, pathVars,
                   geomVars, mtlVars, samplerVars>>

\* renderImage.GetPixels()[index] = Color24(color);
WorkerWriteImage(w) ==
    /\ wpc[w] = "writeImage"
    /\ img' = Store(img, index[w], Encode(color[w], sRGB))
    /\ writers' = [writers EXCEPT !.img = Log(@, index[w], w)]
    /\ wpc' = [wpc EXCEPT ![w] = "writeZ"]
    /\ UNCHANGED <<mainVars, tracerVars, sceneVars, zbuf, sampleCount,
                   numRenderedPixels, threadVars, index, rng, firstIndex, S1, zMin,
                   sampNum, color, doneSetters, drawn, sampled, pathVars, geomVars,
                   mtlVars, samplerVars>>

\* renderImage.GetZBuffer()[index] = z_min;
WorkerWriteZ(w) ==
    /\ wpc[w] = "writeZ"
    /\ zbuf' = Store(zbuf, index[w], zMin[w])
    /\ writers' = [writers EXCEPT !.zbuf = Log(@, index[w], w)]
    /\ wpc' = [wpc EXCEPT ![w] = "writeCount"]
    /\ UNCHANGED <<mainVars, tracerVars, sceneVars, img, sampleCount,
                   numRenderedPixels, threadVars, index, rng, firstIndex, S1, zMin,
                   sampNum, color, doneSetters, drawn, sampled, pathVars, geomVars,
                   mtlVars, samplerVars>>

\* renderImage.GetSampleCount()[index] = sampNum;
WorkerWriteCount(w) ==
    /\ wpc[w] = "writeCount"
    /\ sampleCount' = Store(sampleCount, index[w], sampNum[w])
    /\ writers' = [writers EXCEPT !.sampleCount = Log(@, index[w], w)]
    /\ wpc' = [wpc EXCEPT ![w] = "increment"]
    /\ UNCHANGED <<mainVars, tracerVars, sceneVars, img, zbuf,
                   numRenderedPixels, threadVars, index, rng, firstIndex, S1, zMin,
                   sampNum, color, doneSetters, drawn, sampled, pathVars, geomVars,
                   mtlVars, samplerVars>>

\* renderImage.IncrementNumRenderPixel(1);
WorkerIncrement(w) ==
    /\ wpc[w] = "increment"
    /\ numRenderedPixels' = numRenderedPixels + 1
    /\ wpc' = [wpc EXCEPT ![w] = "check"]
    /\ UNCHANGED <<mainVars, tracerVars, sceneVars, img, zbuf, sampleCount,
                   threadVars, index, rng, firstIndex, S1, zMin, sampNum, color,
                   historyVars, pathVars, geomVars, mtlVars, samplerVars>>

\* if (renderImage.IsRenderDone())
WorkerCheckDone(w) ==
    /\ wpc[w] = "check"
    /\ wpc' = [wpc EXCEPT ![w] = IF IsRenderDone THEN "setDone" ELSE "draw"]
    /\ UNCHANGED <<mainVars, tracerVars, sceneVars, imageVars, threadVars,
                   index, rng, firstIndex, S1, zMin, sampNum, color,
                   historyVars, pathVars, geomVars, mtlVars, samplerVars>>

\* isRendering = false; return;
WorkerSetDone(w) ==
    /\ wpc[w] = "setDone"
    /\ isRendering' = FALSE
    /\ doneSetters' = doneSetters \cup {w}
    /\ wpc' = [wpc EXCEPT ![w] = "exit"]
    /\ UNCHANGED <<mainVars, sampleMax, width, height, numPixels, next,
                   lightsRenderable, sceneVars, imageVars, threadVars,
                   index, rng, firstIndex, S1, zMin, sampNum, color,
                   writers, drawn, sampled, pathVars, geomVars, mtlVars,
                   samplerVars>>

\* index = next++; and the loop test
WorkerDrawNext(w) ==
    /\ wpc[w] = "draw"
    /\ LET d == PostIncrement(next)
       IN  /\ next' = d.after
           /\ index' = [index EXCEPT ![w] = d.value]
           /\ drawn' = Log(drawn, d.value, w)
           /\ wpc' = [wpc EXCEPT ![w] =
                         IF LoopContinues(d.value, numPixels) THEN "render" ELSE "exit"]
    /\ UNCHANGED <<mainVars, sampleMax, width, height, numPixels, isRendering,
                   lightsRenderable, sceneVars, imageVars, threadVars,
                   rng, firstIndex, S1, zMin, sampNum, color, writers, doneSetters,
                   sampled, pathVars, geomVars, mtlVars, samplerVars>>

RenderPixels(w) ==
    \/ WorkerStart(w)
    \/ WorkerRender(w)
    \/ WorkerWriteImage(w)
    \/ WorkerWriteZ(w)
    \/ WorkerWriteCount(w)
    \/ WorkerIncrement(w)
    \/ WorkerCheckDone(w)
    \/ WorkerSetDone(w)
    \/ WorkerDrawNext(w)

Main ==
    \/ MainCheckArgs
    \/ MainLoadScene
    \/ MainShowViewport
    \/ MainPoll
    \/ MainSaveImage
    \/ MainReturn

Next ==
    \/ Main
    \/ \E w \in Workers : RenderPixels(w)

Spec == Init /\ [][Next]_vars

\* The threads are scheduled: while some thread can take a step, a step is
\* eventually taken.  Whether the render ends does not depend on the sample
\* budget, so the fair specification explores the small budgets only.
InitFair ==
    /\ Init
    /\ sampleMax \in 1 .. MaxSamples

FairSpec == InitFair /\ [][Next]_vars /\ WF_vars(Next)

\* the main thread up to the start of the render, on any hardware
InitThreads ==
    /\ InitTracer
    /\ hwConcurrency \in AllHCValues

NextThreads ==
    \/ MainCheckArgs
    \/ MainLoadScene
    \/ MainShowViewport
    \/ MainReturn

SpecThreads == InitThreads /\ [][NextThreads]_vars

\* ------------------------------------------------------- path integrator
\* One path: tracePath(ray, sInfo, hInfo, 0) and everything it calls.  The
\* call stack is represented by its depth, which is the bounce number of the
\* running activation: a call runs the callee at bounce + 1, a return resumes
\* the activation that made the call.  Colours are named by where they come
\* from.
schedulerVars == <<mainVars, tracerVars, sceneVars, imageVars, threadVars,
                   workerVars, historyVars>>

\* what TraceRay can report: nothing, a surface or a light, near or far
HitOutcomes == {[hit |-> FALSE, isLight |-> FALSE, z |-> BIGFLOAT],
                [hit |-> TRUE, isLight |-> FALSE, z |-> 2000],
                [hit |-> TRUE, isLight |-> FALSE, z |-> 8000],
                [hit |-> TRUE, isLight |-> TRUE, z |-> 2000],
                [hit |-> TRUE, isLight |-> TRUE, z |-> 8000]}

Rolls == 0 .. 3

\* if (bounce >= 2000) return black
BounceCapReached(b) == b >= BounceCap

\* tracePath(..., bounce+1)
RecurseBounceSame(b) == b

RecurseBounce(b) == b + 1

\* if (hInfo.isLight) { if (bounce == 0) { hInfo.light->Radiance(sInfo); }
\*                      return Color().Black(); }
LightHitColor(b) == "black"

InitPath ==
    /\ Init
    /\ argc = 3
    /\ sampleMax = 1
    /\ hwConcurrency = 2
    /\ ~debugBuild

Return(from, c) ==
    /\ ppc' = "return"
    /\ retFrom' = from
    /\ retColor' = c

\* entry of tracePath: the cap, then hInfo.Init() and TraceRay;
\* if (!hit) hInfo.z = BIGFLOAT.  hInfo is a reference: the record written
\* is the caller's.
PathEnter ==
    /\ ppc = "enter"
    /\ IF BounceCapReached(bounce)
       THEN /\ Return("cap", "black")
            /\ UNCHANGED <<hit, isLight, hitZ, calls, info, cameraZ>>
       ELSE /\ \E h \in HitOutcomes :
                  /\ hit' = h.hit
                  /\ isLight' = h.isLight
                  /\ hitZ' = h.z
                  /\ info' = IF onInfo THEN [z |-> h.z] ELSE info
                  /\ cameraZ' = IF bounce = 0 THEN h.z ELSE cameraZ
            /\ calls' = 0
            /\ ppc' = "traced"
            /\ UNCHANGED <<retFrom, retColor>>
    /\ UNCHANGED <<bounce, radianceEvaluated, schedulerVars, geomVars, mtlVars,
                   sampleCoords, myRand, onInfo>>

\* if (tRand < hInfo.z) { if (roll < sig_a / sig_t) { ... return } ...
PathAbsorb ==
    /\ ppc = "traced"
    /\ \E roll \in Rolls :
          /\ FreeFlight(roll) < hitZ
          /\ Absorbed(roll)
    /\ Return("absorb", IF bounce = 0 /\ ~hit THEN "background"
                        ELSE IF ~hit THEN "environment" ELSE "black")
    /\ UNCHANGED <<bounce, hit, isLight, hitZ, calls, radianceEvaluated, schedulerVars, geomVars, mtlVars,
                   samplerVars>>

\* ... the light sample and the new direction of the medium branch
PathScatter ==
    /\ ppc = "traced"
    /\ \E roll \in Rolls :
          /\ FreeFlight(roll) < hitZ
          /\ ~Absorbed(roll)
    /\ ppc' = "scatter"
    /\ UNCHANGED <<bounce, hit, isLight, hitZ, retFrom, retColor, calls,
                   radianceEvaluated, schedulerVars, geomVars, mtlVars,
                   samplerVars>>

\* Color samp2 = tracePath(Ray(p, dirNew), sInfo, hInfo, bounce+1);
\* the callee is given the caller's own record
PathScatterRecurse ==
    /\ ppc = "scatter"
    /\ bounce' = RecurseBounce(bounce)
    /\ ppc' = "enter"
    /\ UNCHANGED <<hit, isLight, hitZ, retFrom, retColor, calls, radianceEvaluated,
                   schedulerVars, geomVars, mtlVars, samplerVars>>

\* else if (hit) { ... } and the code after it
PathSurface ==
    /\ ppc = "traced"
    /\ \E roll \in Rolls : ~(FreeFlight(roll) < hitZ)
    /\ IF hit
       THEN IF isLight
            THEN /\ radianceEvaluated' = (radianceEvaluated \/ bounce = 0)
                 /\ Return("light", LightHitColor(bounce))
            ELSE /\ ppc' = "material"
                 /\ UNCHANGED <<retFrom, retColor, radianceEvaluated>>
       ELSE /\ Return("escape", IF bounce = 0 THEN "background" ELSE "environment")
            /\ UNCHANGED radianceEvaluated
    /\ UNCHANGED <<bounce, hit, isLight, hitZ, calls, schedulerVars, geomVars, mtlVars,
                   samplerVars>>

\* materialSample, when GenerateSample fails: return mInfo.mult
PathMaterialNoSample ==
    /\ ppc = "material"
    /\ Return("material", "mult")
    /\ UNCHANGED <<bounce, hit, isLight, hitZ, calls, radianceEvaluated, schedulerVars, geomVars, mtlVars,
                   samplerVars>>

\* materialSample: HitInfo giInfo; giInfo.Init();
\*                 if (matToL.prob == 0 && !mDir.IsZero())
\*                     gi = tracePath(Ray(sInfo.P(), mDir), sInfo, giInfo, bounce+1);
\* the callee is given a record of its own
PathMaterialRecurse ==
    /\ ppc = "material"
    /\ bounce' = RecurseBounce(bounce)
    /\ ppc' = "enter"
    /\ onInfo' = FALSE
    /\ UNCHANGED <<hit, isLight, hitZ, retFrom, retColor, calls, radianceEvaluated,
                   schedulerVars, geomVars, mtlVars, sampleCoords, myRand, info,
                   cameraZ>>

\* materialSample, when the sampled direction reaches the light: no
\* recursion, the light sample and the weights
PathMaterialDirect ==
    /\ ppc = "material"
    /\ Return("material", "combined")
    /\ UNCHANGED <<bounce, hit, isLight, hitZ, calls, radianceEvaluated, schedulerVars, geomVars, mtlVars,
                   samplerVars>>

\* a return: to samplePixel from bounce 0, else to the activation that called
PathReturn ==
    /\ ppc = "return"
    /\ IF bounce = 0
       THEN /\ ppc' = "done"
            /\ UNCHANGED <<bounce, calls>>
       ELSE /\ ppc' = "resumed"
            /\ bounce' = bounce - 1
            /\ calls' = 1
    /\ UNCHANGED <<hit, isLight, hitZ, retFrom, retColor, radianceEvaluated,
                   schedulerVars, geomVars, mtlVars, samplerVars>>

\* the rest of the caller after its recursive call: the medium branch
\* returns transmittance / pdf * sig_s * total, materialSample returns total
PathResume ==
    /\ ppc = "resumed"
    /\ Return("caller", "combined")
    /\ UNCHANGED <<bounce, hit, isLight, hitZ, calls, radianceEvaluated, schedulerVars, geomVars, mtlVars,
                   samplerVars>>

\* total = tracePath(ray, sInfo, hInfo);   (in samplePixel)
PathCall ==
    /\ ppc = "idle"
    /\ pcMain = "args"
    /\ ppc' = "enter"
    /\ UNCHANGED <<bounce, hit, isLight, hitZ, retFrom, retColor, calls,
                   radianceEvaluated, schedulerVars, geomVars, mtlVars,
                   samplerVars>>

NextPath ==
    \/ PathCall
    \/ PathEnter
    \/ PathAbsorb
    \/ PathScatter
    \/ PathScatterRecurse
    \/ PathSurface
    \/ PathMaterialNoSample
    \/ PathMaterialRecurse
    \/ PathMaterialDirect
    \/ PathReturn
    \/ PathResume

SpecPath == InitPath /\ [][NextPath]_vars

\* the thread running the path keeps running
FairSpecPath == SpecPath /\ WF_vars(NextPath)

\* --------------------------------------------- intersection tests in turn
\* One TraceRay or ShadowTraceRay call seen from the hit record: hInfo.Init()
\* by the caller, then the intersection tests of the objects and lights met,
\* in any order and on any local ray.
MaxTests == 3

Roots == {NaN, F(-500), F(1), F(700), F(1500)}

SphereInputs ==
    {g \in [deltaNeg : BOOLEAN, t1 : Roots, t2 : Roots, graze : BOOLEAN,
            facing : {TRUE}, inCone : {TRUE}] :
        /\ g.t1.nan = g.t2.nan
        /\ g.t1.v <= g.t2.v
        /\ g.deltaNeg => (g.t1.nan /\ ~g.graze)}

LightInputs ==
    {g \in [deltaNeg : BOOLEAN, t1 : Roots, t2 : Roots, graze : BOOLEAN,
            facing : BOOLEAN, inCone : BOOLEAN] :
        /\ g.t1.nan = g.t2.nan
        /\ g.t1.v <= g.t2.v
        /\ g.deltaNeg => (g.t1.nan /\ ~g.graze)}

TriangleInputs ==
    [cos : {"parallel", "back", "front"}, t : {F(-500), F(0), F(700), F(1500)},
     inside : BOOLEAN]

\* local rays, in thousandths; the divisions of PlaneT and PlaneX are exact
\* on them
Rays ==
    [px : {0, 1500}, py : {0}, pz : {-1, 0, 1, 500},
     dx : {0, 1000}, dy : {0}, dz : {-1000, -1, 0, 1, 1000}]

otherVars == <<schedulerVars, pathVars, mtlVars, searchVars, samplerVars>>

\* hInfo.Init();  (tracePath, before TraceRay)
HitInit ==
    /\ gpc = "idle"
    /\ pcMain = "args"
    /\ hInfo' = HitInfoInit
    /\ gpc' = "testing"
    /\ UNCHANGED <<lastTest, tests, otherVars>>

Tested(kind, res, dz) ==
    /\ hInfo' = res.h
    /\ lastTest' = [kind |-> kind, ret |-> res.ret, before |-> hInfo, dz |-> dz]
    /\ tests' = tests + 1
    /\ UNCHANGED <<gpc, otherVars>>

TestSphere ==
    /\ gpc = "testing" /\ tests < MaxTests
    /\ \E g \in SphereInputs, hs \in HitSides :
          Tested("sphere", SphereIntersectRay(g, hInfo, hs), 1000)

TestPlane ==
    /\ gpc = "testing" /\ tests < MaxTests
    /\ \E r \in Rays, hs \in HitSides :
          Tested("plane", PlaneIntersectRay(r, hInfo, hs), r.dz)

TestTriangle ==
    /\ gpc = "testing" /\ tests < MaxTests
    /\ \E g \in TriangleInputs, hs \in HitSides :
          Tested("triangle", IntersectTriangle(g, hInfo, hs), 1000)

TestPointLight ==
    /\ gpc = "testing" /\ tests < MaxTests
    /\ \E g \in SphereInputs, hs \in HitSides :
          Tested("pointLight", PointLightIntersectRay(g, hInfo, hs), 1000)

TestSpotLight ==
    /\ gpc = "testing" /\ tests < MaxTests
    /\ \E g \in LightInputs, hs \in HitSides :
          Tested("spotLight", SpotLightIntersectRay(g, hInfo, hs), 1000)

InitHit ==
    /\ Init
    /\ argc = 3
    /\ sampleMax = 1
    /\ hwConcurrency = 2
    /\ ~debugBuild

NextHit ==
    \/ HitInit
    \/ TestSphere
    \/ TestPlane
    \/ TestTriangle
    \/ TestPointLight
    \/ TestSpotLight

SpecHit == InitHit /\ [][NextHit]_vars

\* ------------------------------------------------------------- SearchTree
\* The closest-hit search of the scene graph for one ray.  A graph is given
\* by the parent of each node (0 for the root, node 1) and the object of
\* each node; children are visited in increasing order.  The object of a
\* node is a sphere, given by what its intersection computes on the local
\* ray.
MaxNodes == 3

SphereMissed ==
    [deltaNeg |-> TRUE, t1 |-> NaN, t2 |-> NaN, graze |-> FALSE,
     facing |-> TRUE, inCone |-> TRUE]

SphereAt(k) ==
    [deltaNeg |-> FALSE, t1 |-> F(k), t2 |-> F(k + 200), graze |-> FALSE,
     facing |-> TRUE, inCone |-> TRUE]

\* a local ray that lies in the plane z = 0
RayInPlane == [px |-> 0, py |-> 0, pz |-> 0, dx |-> 1000, dy |-> 0, dz |-> 0]

\* node->GetNodeObj(): none, a sphere the ray misses or meets at 0.3, 0.9
\* or 1.5, or a plane the ray lies in
NodeObjects ==
    {[present |-> FALSE, kind |-> "sphere", g |-> SphereMissed, ray |-> RayInPlane],
     [present |-> TRUE, kind |-> "sphere", g |-> SphereMissed, ray |-> RayInPlane]}
        \cup {[present |-> TRUE, kind |-> "sphere", g |-> SphereAt(k), ray |-> RayInPlane] :
                  k \in {300, 900, 1500}}
        \cup {[present |-> TRUE, kind |-> "plane", g |-> SphereMissed,
               ray |-> RayInPlane]}

\* node->GetNodeObj()->IntersectRay(localRay, hInfo, hitSide)
ObjectIntersectRay(o, h, hitSide) ==
    IF o.kind = "plane" THEN PlaneIntersectRay(o.ray, h, hitSide)
    ELSE SphereIntersectRay(o.g, h, hitSide)

Parents(n) ==
    {p \in [1 .. n -> 0 .. (n - 1)] :
        /\ p[1] = 0
        /\ \A i \in 2 .. n : p[i] \in 1 .. (i - 1)}

Graphs ==
    UNION {{[parent |-> p, obj |-> o, lights |-> <<>>, sampled |-> 0] :
               p \in Parents(n), o \in [1 .. n -> NodeObjects]} : n \in 1 .. MaxNodes}

\* node->GetChild(i) for the first i not yet visited; 0 when there is none
NextChild(gr, n, last) ==
    IF \E c \in DOMAIN gr.parent : gr.parent[c] = n /\ c > last
    THEN CHOOSE c \in DOMAIN gr.parent :
            /\ gr.parent[c] = n /\ c > last
            /\ \A e \in DOMAIN gr.parent : (gr.parent[e] = n /\ e > last) => c <= e
    ELSE 0

\* node->FromNodeCoords(hInfo): p, N and GN move to the parent frame
FromNodeCoords(n, h) == [h EXCEPT !.frame = Append(@, n)]

\* the head of SearchTree: descHit = false; the object test;
\* if (isHit) { hInfo.node = node; descHit = true; }
SearchEnter(gr, n, h, hitSide) ==
    LET res == IF gr.obj[n].present
               THEN ObjectIntersectRay(gr.obj[n], h, hitSide)
               ELSE Miss(h)
    IN  [frame |-> [node |-> n, i |-> 0, descHit |-> res.ret],
         h |-> IF res.ret THEN [res.h EXCEPT !.node = n] ELSE res.h]

\* if (SearchTree(localRay, hInfo, hitSide, node->GetChild(i))) descHit = true;
DescHitLast(own, child) == child

DescHit(own, child) == own \/ child

restVars == <<lastTest, tests, schedulerVars, pathVars, mtlVars, samplerVars>>

\* hInfo.Init(); then TraceRay calls SearchTree(ray, hInfo, hitSide, &scene.rootNode)
SearchTreeCall ==
    /\ gpc = "idle"
    /\ pcMain = "args"
    /\ \E gr \in Graphs :
          /\ graph' = gr
          /\ hInfo' = SearchEnter(gr, 1, HitInfoInit, HIT_FRONT_AND_BACK).h
          /\ stack' = <<SearchEnter(gr, 1, HitInfoInit, HIT_FRONT_AND_BACK).frame>>
    /\ gpc' = "search"
    /\ UNCHANGED <<searchRet, lifted, hitObj, hitLight, lightPos, verdict, restVars>>

\* the loop over the children: the call on the next child
SearchTreeChild ==
    /\ gpc = "search"
    /\ LET top == stack[Len(stack)]
           c == NextChild(graph, top.node, top.i)
       IN  /\ c # 0
           /\ hInfo' = SearchEnter(graph, c, hInfo, HIT_FRONT_AND_BACK).h
           /\ stack' = Append([stack EXCEPT ![Len(stack)].i = c],
                              SearchEnter(graph, c, hInfo, HIT_FRONT_AND_BACK).frame)
    /\ UNCHANGED <<gpc, graph, searchRet, lifted, hitObj, hitLight, lightPos, verdict,
                   restVars>>

\* after the loop: if (descHit) node->FromNodeCoords(hInfo); return descHit;
\* and the caller's use of the returned value
SearchTreeReturn ==
    /\ gpc = "search"
    /\ LET top == stack[Len(stack)]
       IN  /\ NextChild(graph, top.node, top.i) = 0
           /\ IF top.descHit
              THEN /\ hInfo' = FromNodeCoords(top.node, hInfo)
                   /\ lifted' = Append(lifted, top.node)
              ELSE UNCHANGED <<hInfo, lifted>>
           /\ searchRet' = top.descHit
           /\ IF Len(stack) = 1
              THEN /\ stack' = <<>>
                   /\ hitObj' = top.descHit
                   /\ gpc' = "searched"
              ELSE /\ stack' = [SubSeq(stack, 1, Len(stack) - 1)
                                   EXCEPT ![Len(stack) - 1].descHit = DescHit(@, top.descHit)]
                   /\ UNCHANGED <<hitObj, gpc>>
    /\ UNCHANGED <<graph, hitLight, lightPos, verdict, restVars>>

InitSearch == InitHit

NextSearch ==
    \/ SearchTreeCall
    \/ SearchTreeChild
    \/ SearchTreeReturn

SpecSearch == InitSearch /\ [][NextSearch]_vars

\* the nodes from n up to the root, innermost first
RECURSIVE PathToRoot(_, _)
PathToRoot(gr, n) == IF n = 0 THEN <<>> ELSE <<n>> \o PathToRoot(gr, gr.parent[n])

\* --------------------------------------------------------- ShadowTraceRay
\* The shadow test of one light sample: shadowInfo.Init(), ShadowTraceRay
\* with t_max = 1, then the caller's use of the result in materialSample and
\* in the medium branch of tracePath.  Distances are ray parameters: the
\* sampled point of the light is at 1.
MaxLights == 2

\* ShadowTraceRay(..., HIT_FRONT_AND_BACK, 1.0f)
TMax == 1000

LightAt(k, cone) ==
    [deltaNeg |-> FALSE, t1 |-> F(k), t2 |-> F(1300), graze |-> FALSE,
     facing |-> TRUE, inCone |-> cone]

\* the lights of the scene as the shadow ray meets them
LightChoices ==
    {[renderable |-> TRUE, kind |-> "point", g |-> LightAt(700, TRUE)],
     [renderable |-> TRUE, kind |-> "point", g |-> LightAt(400, TRUE)],
     [renderable |-> TRUE, kind |-> "spot", g |-> LightAt(400, FALSE)],
     [renderable |-> FALSE, kind |-> "point", g |-> LightAt(400, TRUE)]}

\* the sampled light is any entry of lightsRenderable, which BeginRender
\* fills with the photon sources of scene.lights
ShadowGraphs ==
    UNION {{[parent |-> gr.parent, obj |-> gr.obj, lights |-> ls, sampled |-> k] :
               gr \in Graphs, ls \in [1 .. n -> LightChoices], k \in 1 .. n} :
           n \in 1 .. MaxLights}

\* light->IntersectRay(ray, hInfo, hitSide)
LightIntersectRay(l, h, hitSide) ==
    IF l.kind = "spot" THEN SpotLightIntersectRay(l.g, h, hitSide)
    ELSE PointLightIntersectRay(l.g, h, hitSide)

\* the head of ShadowSearch: the object test with HIT_FRONT_AND_BACK and
\* if (isHit && hInfo.z < t_max) return true;
ShadowEnter(gr, n, h) ==
    LET res == IF gr.obj[n].present
               THEN ObjectIntersectRay(gr.obj[n], h, HIT_FRONT_AND_BACK)
               ELSE Miss(h)
    IN  [found |-> res.ret /\ FLess(res.h.z, F(TMax)),
         h |-> res.h,
         frame |-> [node |-> n, i |-> 0, descHit |-> FALSE]]

\* what the entry of a node does to the search: a hit below t_max ends it,
\* every pending call returning true in turn
ShadowEntered(e, callers) ==
    /\ hInfo' = e.h
    /\ IF e.found
       THEN /\ stack' = <<>>
            /\ hitObj' = TRUE
            /\ gpc' = "lights"
       ELSE /\ stack' = Append(callers, e.frame)
            /\ gpc' = "shadowSearch"
            /\ UNCHANGED hitObj

\* shadowInfo.Init(); ShadowTraceRay calls ShadowSearch(ray, hInfo, &scene.rootNode, t_max)
ShadowTraceRayCall ==
    /\ gpc = "idle"
    /\ pcMain = "args"
    /\ \E gr \in ShadowGraphs :
          /\ graph' = gr
          /\ ShadowEntered(ShadowEnter(gr, 1, HitInfoInit), <<>>)
    /\ UNCHANGED <<searchRet, lifted, hitLight, lightPos, verdict, restVars>>

\* if (ShadowSearch(localRay, hInfo, node->GetChild(i), t_max)) return true;
ShadowSearchChild ==
    /\ gpc = "shadowSearch"
    /\ LET top == stack[Len(stack)]
           c == NextChild(graph, top.node, top.i)
       IN  /\ c # 0
           /\ ShadowEntered(ShadowEnter(graph, c, hInfo),
                            [stack EXCEPT ![Len(stack)].i = c])
    /\ UNCHANGED <<graph, searchRet, lifted, hitLight, lightPos, verdict, restVars>>

\* return false;  (no child left)
ShadowSearchReturn ==
    /\ gpc = "shadowSearch"
    /\ NextChild(graph, stack[Len(stack)].node, stack[Len(stack)].i) = 0
    /\ stack' = SubSeq(stack, 1, Len(stack) - 1)
    /\ IF Len(stack) = 1
       THEN hitObj' = FALSE /\ gpc' = "lights"
       ELSE UNCHANGED <<hitObj, gpc>>
    /\ UNCHANGED <<hInfo, graph, searchRet, lifted, hitLight, lightPos, verdict, restVars>>

\* one iteration of "for (Light* light : this->scene.lights)"
ShadowLightTest ==
    /\ gpc = "lights"
    /\ lightPos < Len(graph.lights)
    /\ lightPos' = lightPos + 1
    /\ LET l == graph.lights[lightPos + 1]
           res == LightIntersectRay(l, hInfo, HIT_FRONT_AND_BACK)
       IN  IF ~l.renderable
           THEN UNCHANGED <<hInfo, hitLight>>
           ELSE IF res.ret
                THEN /\ hitLight' = TRUE
                     /\ hInfo' = [res.h EXCEPT !.node = 0, !.isLight = TRUE,
                                               !.light = lightPos + 1]
                ELSE /\ hInfo' = res.h
                     /\ UNCHANGED hitLight
    /\ UNCHANGED <<gpc, graph, stack, searchRet, lifted, hitObj, verdict, restVars>>

\* bool hitSelf = (shadowHit && shadowInfo.isLight && shadowInfo.light == light);
HitSelf(shadowHit, h, light) == shadowHit /\ h.isLight /\ h.light = light

\* return (hitObj || hitLight); then, in materialSample,
\*   if (shadowHit && !hitSelf) lInfo.mult = Color().Black();
\* and in the medium branch the sample counts only if hitSelf
ShadowTraceRayReturn ==
    /\ gpc = "lights"
    /\ lightPos = Len(graph.lights)
    /\ searchRet' = (hitObj \/ hitLight)
    /\ verdict' =
          [material |-> IF (hitObj \/ hitLight)
                           /\ ~HitSelf(hitObj \/ hitLight, hInfo, graph.sampled)
                        THEN "black" ELSE "lit",
           medium |-> IF HitSelf(hitObj \/ hitLight, hInfo, graph.sampled)
                      THEN "lit" ELSE "black"]
    /\ gpc' = "shadowed"
    /\ UNCHANGED <<hInfo, graph, stack, lifted, hitObj, hitLight, lightPos, restVars>>

InitShadow == InitHit

NextShadow ==
    \/ ShadowTraceRayCall
    \/ ShadowSearchChild
    \/ ShadowSearchReturn
    \/ ShadowLightTest
    \/ ShadowTraceRayReturn

SpecShadow == InitShadow /\ [][NextShadow]_vars

\* where the shadow ray meets a shape on its own: the distance an
\* intersection test reports on a fresh hit record, if it reports a hit
MeetsObject(gr, n) ==
    /\ gr.obj[n].present
    /\ ObjectIntersectRay(gr.obj[n], HitInfoInit, HIT_FRONT_AND_BACK).ret

ObjectDistance(gr, n) ==
    ObjectIntersectRay(gr.obj[n], HitInfoInit, HIT_FRONT_AND_BACK).h.z

MeetsLight(gr, k) ==
    /\ gr.lights[k].renderable
    /\ LightIntersectRay(gr.lights[k], HitInfoInit, HIT_FRONT_AND_BACK).ret

LightDistance(gr, k) ==
    LightIntersectRay(gr.lights[k], HitInfoInit, HIT_FRONT_AND_BACK).h.z

\* something other than the sampled light is met closer than it
OccluderBeforeLight(gr) ==
    \/ \E n \in DOMAIN gr.obj :
          MeetsObject(gr, n) /\ FLess(ObjectDistance(gr, n), LightDistance(gr, gr.sampled))
    \/ \E k \in DOMAIN gr.lights :
          /\ k # gr.sampled
          /\ MeetsLight(gr, k)
          /\ FLess(LightDistance(gr, k), LightDistance(gr, gr.sampled))

\* the sampled light's sphere is met before anything else
LightReachedFirst(gr) ==
    /\ MeetsLight(gr, gr.sampled)
    /\ \A n \in DOMAIN gr.obj :
          MeetsObject(gr, n) => FLess(LightDistance(gr, gr.sampled), ObjectDistance(gr, n))
    /\ \A k \in DOMAIN gr.lights :
          (k # gr.sampled /\ MeetsLight(gr, k))
              => FLess(LightDistance(gr, gr.sampled), LightDistance(gr, k))

\* ---------------------------------------------------------------- TraceRay
\* TraceRay on a freshly initialised record: SearchTree over the scene
\* graph, then the loop over scene.lights.
\* hInfo.Init(); bool hit = TraceRay(ray, hInfo, HIT_FRONT_AND_BACK);
TraceRayCall ==
    /\ gpc = "idle"
    /\ pcMain = "args"
    /\ \E gr \in ShadowGraphs :
          /\ graph' = gr
          /\ hInfo' = SearchEnter(gr, 1, HitInfoInit, HIT_FRONT_AND_BACK).h
          /\ stack' = <<SearchEnter(gr, 1, HitInfoInit, HIT_FRONT_AND_BACK).frame>>
    /\ gpc' = "search"
    /\ UNCHANGED <<searchRet, lifted, hitObj, hitLight, lightPos, verdict, restVars>>

\* one iteration of "for (Light* light : this->scene.lights)":
\* if (!light->IsRenderable()) continue;
\* if (light->IntersectRay(ray, hInfo, hitSide)) { hitLight = true;
\*     hInfo.node = nullptr; hInfo.isLight = true; hInfo.light = light; }
TraceLightTest ==
    /\ gpc = "searched"
    /\ lightPos < Len(graph.lights)
    /\ lightPos' = lightPos + 1
    /\ LET l == graph.lights[lightPos + 1]
           res == LightIntersectRay(l, hInfo, HIT_FRONT_AND_BACK)
       IN  IF ~l.renderable
           THEN UNCHANGED <<hInfo, hitLight>>
           ELSE IF res.ret
                THEN /\ hitLight' = TRUE
                     /\ hInfo' = [res.h EXCEPT !.node = 0, !.isLight = TRUE,
                                               !.light = lightPos + 1]
                ELSE /\ hInfo' = res.h
                     /\ UNCHANGED hitLight
    /\ UNCHANGED <<gpc, graph, stack, searchRet, lifted, hitObj, verdict, restVars>>

\* return (hitObj || hitLight);
TraceRayReturn ==
    /\ gpc = "searched"
    /\ lightPos = Len(graph.lights)
    /\ searchRet' = (hitObj \/ hitLight)
    /\ gpc' = "traced"
    /\ UNCHANGED <<hInfo, graph, stack, lifted, hitObj, hitLight, lightPos, verdict,
                   restVars>>

InitTrace == InitHit

NextTrace ==
    \/ TraceRayCall
    \/ SearchTreeChild
    \/ SearchTreeReturn
    \/ TraceLightTest
    \/ TraceRayReturn

SpecTrace == InitTrace /\ [][NextTrace]_vars

\* the distances at which the ray meets the objects and the renderable
\* lights of the scene, each tested on its own
HitDistances(gr) ==
    {ObjectDistance(gr, n) : n \in {m \in DOMAIN gr.obj : MeetsObject(gr, m)}}
        \cup {LightDistance(gr, k) : k \in {j \in DOMAIN gr.lights : MeetsLight(gr, j)}}

Closest(gr, z) ==
    z \in HitDistances(gr) /\ \A d \in HitDistances(gr) : FLeq(z, d)

\* ------------------------------------------------------------ CamRayDest
\* sampleGen.GetSample(sampleNum, pixelOffset) as RenderPixels reaches it:
\* sampleNum is the loop variable of the sample loop and pixelOffset a value
\* of rng.RandomFloat(), here a multiple of 2^-OffsetBits in [0, 1).
MaxSampleNum == 8

OffsetBits == 4

RECURSIVE Pow2(_)
Pow2(k) == IF k = 0 THEN 1 ELSE 2 * Pow2(k - 1)

PixelOffsets == {[num |-> k, den |-> Pow2(OffsetBits)] : k \in 0 .. (Pow2(OffsetBits) - 1)}

\* the sample numbers explored: the first few of [0, sampleMax)
SampleNums == 0 .. (Min(MaxSampleNum, SampleMaxMain) - 1)

CamRayDest ==
    /\ gpc = "idle"
    /\ pcMain = "args"
    /\ \E n \in SampleNums, off \in PixelOffsets :
          sampleCoords' = GetSample(n, off)
    /\ UNCHANGED <<schedulerVars, pathVars, geomVars, mtlVars, myRand, sampleVars>>

InitSampler == InitHit

NextSampler == CamRayDest

SpecSampler == InitSampler /\ [][NextSampler]_vars

\* ------------------------------------------------------------ randomLight
\* The calls of randomLight in a render: BeginRender has collected the
\* photon sources of scene.lights into lightsRenderable, and a path reaches
\* the light sample of the medium branch or materialSample.
\* scene.lights as the loader leaves it: up to MaxLights lights
SceneLightLists ==
    UNION {[1 .. n -> [id : 1 .. MaxLights, photonSource : BOOLEAN]] : n \in 0 .. MaxLights}

\* int myRand = sInfo.RandomInt() % lightsRenderable.size();
\* return lightsRenderable[myRand];
\* The modulo by zero is undefined: the division traps, or the vector is
\* indexed with a value it does not hold.
randomLight(lights, r, caller) ==
    IF Len(lights) = 0
    THEN {[caller |-> caller, rand |-> r, trapped |-> TRUE, index |-> 0],
          [caller |-> caller, rand |-> r, trapped |-> FALSE, index |-> r]}
    ELSE {[caller |-> caller, rand |-> r, trapped |-> FALSE, index |-> r % Len(lights)]}

\* for (auto l : this->scene.lights) if (l->IsPhotonSource()) lightsRenderable.push_back(l);
\* ... isRendering = true;
CollectLights ==
    /\ ppc = "idle" /\ gpc = "idle" /\ pcMain = "args"
    /\ ~isRendering
    /\ \E ls \in SceneLightLists :
          /\ sceneLights' = ls
          /\ lightsRenderable' = lightsRenderable \o SelectSeq(ls, LAMBDA l : l.photonSource)
    /\ isRendering' = RenderingSet
    /\ UNCHANGED <<mainVars, sampleMax, width, height, numPixels, next,
                   scene, background, sRGB, imageVars, threadVars, workerVars,
                   historyVars, pathVars, geomVars, mtlVars, samplerVars>>

\* tracePath, medium branch: tRand < hInfo.z, not absorbed, then
\* Light* light = this->randomLight(sInfo);
TracePathRandomLight ==
    /\ gpc = "idle" /\ pcMain = "args"
    /\ isRendering
    /\ \E h \in HitOutcomes, roll \in Rolls, r \in Rolls :
          /\ FreeFlight(roll) < h.z
          /\ ~Absorbed(roll)
          /\ myRand' \in randomLight(lightsRenderable, r, "tracePath")
    /\ UNCHANGED <<schedulerVars, pathVars, geomVars, mtlVars, sampleCoords, sampleVars>>

\* tracePath, surface branch: the ray reaches a surface that is no light,
\* and materialSample starts with Light* light = this->randomLight(sInfo);
MaterialSampleRandomLight ==
    /\ gpc = "idle" /\ pcMain = "args"
    /\ isRendering
    /\ \E h \in HitOutcomes, roll \in Rolls, r \in Rolls :
          /\ ~(FreeFlight(roll) < h.z)
          /\ h.hit /\ ~h.isLight
          /\ myRand' \in randomLight(lightsRenderable, r, "materialSample")
    /\ UNCHANGED <<schedulerVars, pathVars, geomVars, mtlVars, sampleCoords, sampleVars>>

InitLights == InitHit

NextLights ==
    \/ CollectLights
    \/ TracePathRandomLight
    \/ MaterialSampleRandomLight

SpecLights == InitLights /\ [][NextLights]_vars

\* --------------------------------------------------------- materialSample
\* MtlBlinn::GenerateSample and Raytracer::materialSample for one surface
\* hit.  Lobe weights and the roll are numbers of quarters; a PDF is a
\* rational [num, den].  The geometric factors of a lobe's PDF (cosTheta / pi
\* and the like) are positive and are taken to be 1.
MaxWeight == 3

MaxPdf == 3

CMulCh(a, b) ==
    IF a = "nan" \/ b = "nan" THEN "nan"
    ELSE IF a = "0" \/ b = "0" THEN "0" ELSE "+"

CAddCh(a, b) ==
    IF a = "nan" \/ b = "nan" THEN "nan"
    ELSE IF a = "0" /\ b = "0" THEN "0" ELSE "+"

\* a channel divided by a PDF: x/0 is infinite for x > 0 and NaN for x = 0
CDivCh(a, q) ==
    IF a = "nan" THEN "nan"
    ELSE IF q.num = 0 THEN (IF a = "0" THEN "nan" ELSE "+")
    ELSE a

\* a channel times a weight num/den, which is NaN when den = 0
CScaleCh(a, w) ==
    IF a = "nan" \/ w.den = 0 THEN "nan"
    ELSE IF w.num = 0 THEN "0" ELSE a

CMul(a, b) == [r |-> CMulCh(a.r, b.r), g |-> CMulCh(a.g, b.g), b |-> CMulCh(a.b, b.b)]

CAdd(a, b) == [r |-> CAddCh(a.r, b.r), g |-> CAddCh(a.g, b.g), b |-> CAddCh(a.b, b.b)]

CDiv(a, q) == [r |-> CDivCh(a.r, q), g |-> CDivCh(a.g, q), b |-> CDivCh(a.b, q)]

CScale(a, w) == [r |-> CScaleCh(a.r, w), g |-> CScaleCh(a.g, w), b |-> CScaleCh(a.b, w)]

\* which of cosOut < 0, half.Dot(V) < 0 and cosPhi_2 < 0 hold
RejectFlags ==
    {<<FALSE, FALSE, FALSE>>, <<TRUE, FALSE, FALSE>>, <<FALSE, TRUE, FALSE>>,
     <<FALSE, FALSE, TRUE>>}

\* Emission().Eval(sInfo.UVW())
Emissions ==
    {Black, White, [r |-> "nan", g |-> "0", b |-> "0"],
     [r |-> "0", g |-> "nan", b |-> "0"]}

Materials ==
    {[d |-> d, r |-> r, t |-> t, roll |-> u, cosOutNeg |-> f[1], hDotVNeg |-> f[2],
      cosPhi2Neg |-> f[3], emit |-> e] :
        d \in 0 .. MaxWeight, r \in 0 .. MaxWeight, t \in 0 .. MaxWeight,
        u \in Rolls, f \in RejectFlags, e \in Emissions}

\* if (sum >= 1) { dPow /= 2.0f * sum; rPow /= 2.0f * sum; tPow /= 2.0f * sum; }
NormalizeBySum(d, r, t) ==
    IF d + r + t >= 4
    THEN [d |-> d, r |-> r, t |-> t, den |-> d + r + t]
    ELSE [d |-> d, r |-> r, t |-> t, den |-> 4]

Normalize(d, r, t) ==
    IF d + r + t >= 4
    THEN [d |-> d, r |-> r, t |-> t, den |-> 2 * (d + r + t)]
    ELSE [d |-> d, r |-> r, t |-> t, den |-> 4]

\* roll < n/den, for roll = u/4
RollBelow(u, n, den) == u * den < n * 4

\* if (half.Dot(sInfo.V()) < 0) ... if (cosPhi_2 < 0) ...: dir = 0, return false
TransmissionRejectedFacing(m) == m.hDotVNeg

TransmissionRejected(m) == m.hDotVNeg \/ m.cosPhi2Neg

\* Color emit = Emission().Eval(...); if (isnan(emit.r)) emit = Color().Black();
EmissionChecked(e) == IF e.r = "nan" THEN Black ELSE e

\* MtlBlinn::GenerateSample(sInfo, dir, si), si having been SetVoid()
GenerateSample(m) ==
    LET w == Normalize(m.d, m.r, m.t)
        si == VoidInfo
    IN  IF RollBelow(m.roll, w.d, w.den)
        THEN [ret |-> TRUE, dir |-> "sampled", w |-> w,
              si |-> [lobe |-> "DIFFUSE", prob |-> [num |-> w.d, den |-> w.den],
                      mult |-> White]]
        ELSE IF RollBelow(m.roll, w.d + w.r, w.den)
        THEN IF m.cosOutNeg
             THEN [ret |-> FALSE, dir |-> "zero", w |-> w,
                   si |-> [lobe |-> "SPECULAR", prob |-> [num |-> w.r, den |-> w.den],
                           mult |-> si.mult]]
             ELSE [ret |-> TRUE, dir |-> "sampled", w |-> w,
                   si |-> [lobe |-> "SPECULAR", prob |-> [num |-> w.r, den |-> w.den],
                           mult |-> White]]
        ELSE IF RollBelow(m.roll, w.d + w.r + w.t, w.den)
        THEN IF TransmissionRejected(m)
             THEN [ret |-> FALSE, dir |-> "zero", w |-> w,
                   si |-> [lobe |-> "TRANSMISSION", prob |-> [num |-> w.t, den |-> w.den],
                           mult |-> si.mult]]
             ELSE [ret |-> TRUE, dir |-> "sampled", w |-> w,
                   si |-> [lobe |-> "TRANSMISSION", prob |-> [num |-> w.t, den |-> w.den],
                           mult |-> White]]
        ELSE IF ~IsBlack(EmissionChecked(m.emit))
             THEN [ret |-> FALSE, dir |-> "normal", w |-> w,
                   si |-> [lobe |-> si.lobe,
                           prob |-> [num |-> w.den - (w.d + w.r + w.t), den |-> w.den],
                           mult |-> EmissionChecked(m.emit)]]
             ELSE [ret |-> FALSE, dir |-> "zero", w |-> w,
                   si |-> [lobe |-> si.lobe,
                           prob |-> [num |-> w.den - (w.d + w.r + w.t), den |-> w.den],
                           mult |-> Black]]

\* MtlBlinn::GetSampleInfo(sInfo, dir, si): the lobes give PDF n/den and a
\* colour; then si.mult += emit; if (!emit.IsBlack()) si.prob += 1 - (dPow + rPow + tPow);
GetSampleInfo(m, n) ==
    LET w == Normalize(m.d, m.r, m.t)
    IN  [prob |-> [num |-> n + (IF IsBlack(m.emit) THEN 0 ELSE w.den - (w.d + w.r + w.t)),
                   den |-> w.den],
         mult |-> CAdd(IF n > 0 THEN White ELSE Black, m.emit)]

\* w = p1^2 / (p1^2 + p2^2)
PowerHeuristicSkewed(p1, p2) ==
    [num |-> (p1.num * p2.den) * (p1.num * p2.den),
     den |-> (p1.num * p2.den) * (p1.num * p2.den) + (p2.num * p1.den)]

PowerHeuristic(p1, p2) ==
    [num |-> (p1.num * p2.den) * (p1.num * p2.den),
     den |-> (p1.num * p2.den) * (p1.num * p2.den)
                + (p2.num * p1.den) * (p2.num * p1.den)]

geomRest == <<schedulerVars, pathVars, geomVars, samplerVars>>

\* mInfo.SetVoid(); bool sample = ...->GenerateSample(sInfo, mDir, mInfo);
MaterialSampleCall ==
    /\ mpc = "idle"
    /\ pcMain = "args"
    /\ \E m \in Materials :
          /\ mtl' = m
          /\ pow' = GenerateSample(m).w
          /\ mInfo' = GenerateSample(m).si
          /\ mDir' = GenerateSample(m).dir
          /\ sample' = GenerateSample(m).ret
    /\ mpc' = "generated"
    /\ UNCHANGED <<matToL, matColor, lightColor, misDens, recursed, total, geomRest>>

\* if (!sample) return mInfo.mult;
MaterialNoSample ==
    /\ mpc = "generated"
    /\ ~sample
    /\ total' = mInfo.mult
    /\ mpc' = "returned"
    /\ UNCHANGED <<mtl, pow, mInfo, mDir, sample, matToL, matColor, lightColor,
                   misDens, recursed, geomRest>>

\* the specular test against GN, matColor = mInfo.mult / mInfo.prob,
\* light->GetSampleInfo(sInfo, mDir, matToL), and
\* if (matToL.prob == 0 && !mDir.IsZero()) { gi = tracePath(..., bounce+1); matColor *= gi; }
MaterialIndirect ==
    /\ mpc = "generated"
    /\ sample
    /\ \E behindGN \in BOOLEAN, lp \in {0, 2}, gi \in {Black, White} :
          LET mult == IF mInfo.lobe = "SPECULAR" /\ behindGN THEN Black ELSE mInfo.mult
              goes == lp = 0 /\ mDir # "zero"
          IN  /\ mInfo' = [mInfo EXCEPT !.mult = mult]
              /\ matToL' = [num |-> lp, den |-> 1]
              /\ recursed' = goes
              /\ matColor' = IF goes THEN CMul(CDiv(mult, mInfo.prob), gi)
                             ELSE CDiv(mult, mInfo.prob)
    /\ mpc' = "light"
    /\ UNCHANGED <<mtl, pow, mDir, sample, lightColor, misDens, total, geomRest>>

\* the light sample: GenerateSample, the shadow test, lToMat and wLight
MaterialLight ==
    /\ mpc = "light"
    /\ \E lightSample \in BOOLEAN, lp \in {0, 1}, occluded \in BOOLEAN, n \in {0, 1} :
          LET lInfo == [prob |-> [num |-> lp, den |-> 1],
                        mult |-> IF occluded THEN Black ELSE White]
              lToMat == GetSampleInfo(mtl, n)
              wLight == PowerHeuristic(lInfo.prob, lToMat.prob)
          IN  IF lightSample /\ lInfo.prob.num > 0
              THEN IF lToMat.prob.num > 0
                   THEN /\ lightColor' = CScale(CMul(CDiv(lInfo.mult, lInfo.prob),
                                                     lToMat.mult), wLight)
                        /\ misDens' = Append(misDens, wLight.den)
                   ELSE /\ lightColor' = Black
                        /\ UNCHANGED misDens
              ELSE /\ lightColor' = Black
                   /\ UNCHANGED misDens
    /\ mpc' = "combine"
    /\ UNCHANGED <<mtl, pow, mInfo, mDir, sample, matToL, matColor, recursed, total,
                   geomRest>>

\* wMat = m1 / (m1 + m2); return lightColor + matColor * wMat;
MaterialCombine ==
    /\ mpc = "combine"
    /\ misDens' = Append(misDens, PowerHeuristic(mInfo.prob, matToL).den)
    /\ total' = CAdd(lightColor, CScale(matColor, PowerHeuristic(mInfo.prob, matToL)))
    /\ mpc' = "returned"
    /\ UNCHANGED <<mtl, pow, mInfo, mDir, sample, matToL, matColor, lightColor,
                   recursed, geomRest>>

InitMaterial == InitHit

NextMaterial ==
    \/ MaterialSampleCall
    \/ MaterialNoSample
    \/ MaterialIndirect
    \/ MaterialLight
    \/ MaterialCombine

SpecMaterial == InitMaterial /\ [][NextMaterial]_vars

\* ------------------------------------------------------------ properties
Born == {w \in Workers : wpc[w] # "unborn"}

AllWorkersExited == \A w \in Born : wpc[w] = "exit"

Written(i) == i \in DOMAIN img /\ i \in DOMAIN zbuf /\ i \in DOMAIN sampleCount

Pixels == 0 .. (width * height - 1)

AtMostOnce(f) == \A i \in DOMAIN f : Len(f[i]) <= 1

\* C1: no pixel index is obtained from the counter `next` twice (neither by
\* two workers nor twice by one), so every slot of the colour, Z and
\* sample-count buffers is written at most once and never by two workers.
C1_UniqueIndex ==
    /\ AtMostOnce(drawn)
    /\ AtMostOnce(writers.img)
    /\ AtMostOnce(writers.zbuf)
    /\ AtMostOnce(writers.sampleCount)

\* two different workers have each written all three slots of their pixel
C1_Witness ==
    \E i, j \in DOMAIN writers.sampleCount :
        /\ i # j
        /\ writers.sampleCount[i] # writers.sampleCount[j]
        /\ writers.img[i] = writers.sampleCount[i]
        /\ writers.zbuf[j] = writers.sampleCount[j]

\* C2: the rendered-pixel counter never exceeds W*H, no index outside
\* [0, W*H) is ever written, and whenever the counter equals W*H (hence
\* whenever a worker has set isRendering = false) every index in [0, W*H)
\* has its colour, Z and sample-count slots written.
C2_AllPixelsAtDone ==
    /\ numRenderedPixels <= width * height
    /\ (DOMAIN img \cup DOMAIN zbuf \cup DOMAIN sampleCount) \subseteq Pixels
    /\ (numRenderedPixels = width * height \/ doneSetters # {})
          => \A i \in Pixels : Written(i)

\* a render of at least two pixels has completed and a worker has said so
C2_Witness ==
    /\ width * height >= 2
    /\ numRenderedPixels = width * height
    /\ doneSetters # {}

\* C3: under fair scheduling, once BeginRender has started a render of at
\* least one pixel, every worker eventually leaves RenderPixels and
\* isRendering becomes false and stays false, which releases the polling
\* caller.
C3_RenderEnds ==
    (nThreads >= 1 /\ numPixels >= 1)
        ~> [](AllWorkersExited /\ ~isRendering /\ pcMain # "poll")

\* the render is over with more workers than pixels
C3_Witness ==
    /\ nThreads > numPixels
    /\ numPixels >= 1
    /\ AllWorkersExited
    /\ ~isRendering
    /\ pcMain = "exited"

C5_AverageOfSamples ==
    \A w \in Workers :
        wpc[w] \in {"writeImage", "writeZ", "writeCount"} =>
            color[w].num * 4 * sampNum[w] = S1[w] * color[w].den

\* C6: a tracePath activation whose closest hit is a light, reached in the
\* surface branch, returns black if bounce > 0 and the light's radiance if
\* bounce = 0.
C6_LightHitColor ==
    (ppc = "return" /\ retFrom = "light") =>
        retColor = (IF bounce = 0 THEN "radiance" ELSE "black")

\* C7: tracePath(ray, sInfo, hInfo, 0) terminates; the running activation's
\* bounce never exceeds 2000, an activation with bounce >= 2000 returns
\* black without tracing, and an activation that recurses has not recursed
\* before.
C7_PathTerminates ==
    /\ [](/\ bounce <= BounceCap
          /\ calls <= 1
          /\ ppc \in {"traced", "scatter", "material"} => (bounce < BounceCap /\ calls = 0)
          /\ (ppc = "return" /\ bounce >= BounceCap) => (retFrom = "cap" /\ retColor = "black"))
    /\ <>(ppc = "done")

\* the cap stops a path that recursed 2000 times
C7_Witness ==
    /\ ppc = "return"
    /\ bounce = BounceCap
    /\ retFrom = "cap"

\* C8: in headless mode SaveImage runs only after every pixel has been
\* fully written, the counter has reached W*H and a worker has set
\* isRendering = false.
C8_SaveAfterRender ==
    (pcMain = "save" \/ Len(savedImage) > 0) =>
        /\ \A i \in Pixels : Written(i)
        /\ Len(savedImage) > 0 => \A i \in Pixels : i \in DOMAIN savedImage[1]
        /\ numRenderedPixels = width * height
        /\ doneSetters # {}
        /\ ~isRendering

\* an image of at least two pixels has been saved
C8_Witness ==
    /\ Len(savedImage) > 0
    /\ width * height >= 2
    /\ nThreads >= 2

\* C9: when LoadScene fails main starts no render, saves no image and does
\* not exit with code 0.
C9_LoadFailureSurfaced ==
    loadResult = "failed" =>
        /\ nThreads = 0
        /\ Len(savedImage) = 0
        /\ exitCode # EXIT_SUCCESS

\* C10 as stated: BeginRender spawns half the hardware concurrency, at
\* least 1, and 1 in debug builds.
C10_HalfMinOne ==
    nThreads > 0 =>
        nThreads = (IF debugBuild THEN 1
                    ELSE IF hwConcurrency \div 2 < 1 THEN 1 ELSE hwConcurrency \div 2)

\* C10 amended: BeginRender spawns half the hardware concurrency, 8 when
\* that half is 0, and 1 in debug builds.
C10_HalfOrEight ==
    pcMain = "poll" =>
        /\ Cardinality(Born) = nThreads
        /\ nThreads = (IF debugBuild THEN 1
                       ELSE IF hwConcurrency \in {0, 1} THEN 8 ELSE hwConcurrency \div 2)

\* a release build on a machine reporting one hardware thread
C10_Witness ==
    /\ pcMain = "poll"
    /\ hwConcurrency = 1
    /\ ~debugBuild
    /\ nThreads = 8

\* C11: within one TraceRay or ShadowTraceRay call, an intersection test
\* either leaves hInfo.z unchanged or replaces it with a strictly smaller
\* value.
C11_ZNeverIncreases ==
    lastTest.kind # "none" =>
        (hInfo.z = lastTest.before.z \/ FLess(hInfo.z, lastTest.before.z))

\* C17: Plane::IntersectRay returns false and leaves hInfo unchanged for
\* every ray with |dir.z| < 0.002.
C17_GrazingPlaneMisses ==
    (lastTest.kind = "plane" /\ lastTest.dz < Bias /\ -lastTest.dz < Bias) =>
        (~lastTest.ret /\ hInfo = lastTest.before)

\* C12: when SearchTree(root) returns true the record left in hInfo has been
\* lifted exactly once at hInfo.node and once at each of its ancestors,
\* innermost first, and nowhere else; when it returns false FromNodeCoords
\* was never applied.
C12_LiftedAlongPath ==
    gpc = "searched" =>
        IF searchRet
        THEN /\ hInfo.node \in DOMAIN graph.parent
             /\ hInfo.frame = PathToRoot(graph, hInfo.node)
        ELSE /\ lifted = <<>>
             /\ hInfo.frame = <<>>

\* the search ended on a hit below the root after an earlier hit elsewhere
\* had been lifted and then replaced
C12_Witness ==
    /\ gpc = "searched"
    /\ searchRet
    /\ Len(hInfo.frame) >= 2
    /\ Len(lifted) > Len(hInfo.frame)

\* C13: a light sample whose shadow ray (t_max = 1) reaches the sampled
\* light's own sphere before any other object is treated as unoccluded, and
\* one whose shadow ray meets a scene object or another renderable light
\* closer than the sampled light is treated as occluded, in materialSample
\* and in the medium branch alike, whatever the order of the scene graph.
C13_ShadowOcclusion ==
    gpc = "shadowed" =>
        /\ LightReachedFirst(graph)
              => (verdict.material = "lit" /\ verdict.medium = "lit")
        /\ (MeetsLight(graph, graph.sampled) /\ OccluderBeforeLight(graph))
              => (verdict.material = "black" /\ verdict.medium = "black")

\* C14: MtlBlinn::GenerateSample leaves the weights d, r, t unchanged when
\* d+r+t < 1 and divides each by 2(d+r+t) otherwise; the roll u then selects
\* diffuse if u < d, specular if d <= u < d+r, transmission if
\* d+r <= u < d+r+t and the emission/absorption leaf otherwise, and the
\* three lobes together have mass at most 1.
C14_LobeSelection ==
    mpc # "idle" =>
        LET sum == mtl.d + mtl.r + mtl.t
            den == IF sum < 4 THEN 4 ELSE 2 * sum
            below(n) == mtl.roll * den < 4 * n
        IN  /\ sum < 4 => pow = [d |-> mtl.d, r |-> mtl.r, t |-> mtl.t, den |-> 4]
            /\ sum >= 4 => /\ pow.d * 2 * sum = mtl.d * pow.den
                           /\ pow.r * 2 * sum = mtl.r * pow.den
                           /\ pow.t * 2 * sum = mtl.t * pow.den
            /\ mInfo.lobe = (IF below(mtl.d) THEN "DIFFUSE"
                             ELSE IF below(mtl.d + mtl.r) THEN "SPECULAR"
                             ELSE IF below(sum) THEN "TRANSMISSION"
                             ELSE "NONE")
            /\ pow.d + pow.r + pow.t <= pow.den

\* weights that needed normalising, and a roll that fell in the third lobe
C14_Witness ==
    /\ mpc = "generated"
    /\ mtl.d + mtl.r + mtl.t > 4
    /\ mtl.d > 0 /\ mtl.r > 0
    /\ mInfo.lobe = "TRANSMISSION"

\* a transmission sample beyond total internal reflection or with
\* h.V < 0, or a specular sample with dir.n' < 0
RejectedSample ==
    \/ mInfo.lobe = "TRANSMISSION" /\ (mtl.cosPhi2Neg \/ mtl.hDotVNeg)
    \/ mInfo.lobe = "SPECULAR" /\ mtl.cosOutNeg

\* C15: for a rejected transmission or specular sample GenerateSample
\* returns false with a zero direction, and materialSample returns black
\* without recursing into tracePath and without any light contribution.
C15_RejectedSampleIsBlack ==
    (mpc # "idle" /\ RejectedSample) =>
        /\ ~sample
        /\ mDir = "zero"
        /\ mpc \in {"generated", "returned"}
        /\ ~recursed
        /\ lightColor = Black
        /\ misDens = <<>>
        /\ mpc = "returned" => total = Black

\* materialSample has returned for a refraction beyond total internal
\* reflection on an emissive material
C15_Witness ==
    /\ mpc = "returned"
    /\ mInfo.lobe = "TRANSMISSION"
    /\ mtl.cosPhi2Neg
    /\ mtl.emit = White

\* C16: an Emission value with NaN in a channel is replaced with black
\* before use, so the value materialSample returns has no NaN.
C16_NaNEmissionReplaced ==
    (mpc = "returned" /\ HasNaN(mtl.emit)) => ~HasNaN(total)

PositivePdfs == [num : 1 .. MaxPdf, den : 1 .. MaxPdf]

\* C19: w(p1,p2) + w(p2,p1) = 1 for all positive PDFs, and every MIS weight
\* evaluated in materialSample has a non-zero denominator.
C19_PowerHeuristic ==
    /\ \A p1, p2 \in PositivePdfs :
          /\ PowerHeuristic(p1, p2).den > 0
          /\ PowerHeuristic(p2, p1).den > 0
          /\ PowerHeuristic(p1, p2).num * PowerHeuristic(p2, p1).den
                + PowerHeuristic(p2, p1).num * PowerHeuristic(p1, p2).den
             = PowerHeuristic(p1, p2).den * PowerHeuristic(p2, p1).den
    /\ \A i \in DOMAIN misDens : misDens[i] > 0

\* materialSample has evaluated both wLight and wMat, the latter for a
\* direction the light could not have produced
C19_Witness ==
    /\ mpc = "returned"
    /\ Len(misDens) = 2
    /\ matToL.num = 0

C20_WorkerOwnsRng ==
    [][\A w \in Workers :
          rng'[w] # rng[w] =>
              /\ wpc'[w] # wpc[w]
              /\ \A v \in Workers \ {w} : wpc'[v] = wpc[v]
              /\ IF wpc[w] = "start"
                 THEN /\ rng[w] = NoRng
                      /\ rng'[w] = RNG(firstIndex'[w])
                      /\ firstIndex'[w] = index'[w]
                 ELSE /\ rng'[w].seed = rng[w].seed
                      /\ rng'[w].seed = firstIndex[w]
                      /\ rng'[w].pos > rng[w].pos]_vars

\* a worker has advanced its generator over a pixel other than its first,
\* while another worker holds a generator of its own with another seed
C20_Witness ==
    \E w, v \in Workers :
        /\ v # w
        /\ index[w] # firstIndex[w]
        /\ wpc[w] = "writeImage"
        /\ rng[w].pos > 2
        /\ rng[v] # NoRng
        /\ rng[v].seed # rng[w].seed

\* C21: in a render with at least two workers, at most one worker ever finds
\* IsRenderDone() true and goes on to execute isRendering = false.
C21_OneDoneSetter ==
    nThreads >= 2 =>
        Cardinality(doneSetters \cup {w \in Workers : wpc[w] = "setDone"}) <= 1

\* C22: an intersection test (Sphere, Plane, triangle, PointLight or
\* SpotLight) that returns false leaves the HitInfo it was given unchanged.
C22_MissLeavesHitInfo ==
    (lastTest.kind # "none" /\ ~lastTest.ret) => hInfo = lastTest.before

\* C25: given the same roots, hitSide and hit record, the test of
\* PointLight::IntersectRay and the unit-sphere test of Sphere::IntersectRay
\* return the same value and leave the same record, rays that start inside
\* the sphere (nearer root negative) included.
C25_SameBiasPolicy ==
    gpc = "testing" =>
        \A g \in SphereInputs, hs \in HitSides :
            PointLightIntersectRay(g, hInfo, hs) = SphereIntersectRay(g, hInfo, hs)

\* C23: TraceRay on a freshly initialised record returns false iff the ray
\* meets no object and no renderable light; when it returns true, hInfo.z is
\* the distance of the closest intersection, isLight says whether that is a
\* light, in which case light is that light and node is null, and otherwise
\* node is a node whose object is met at that distance.
C23_ClosestIntersection ==
    gpc = "traced" =>
        /\ searchRet <=> HitDistances(graph) # {}
        /\ searchRet =>
              /\ Closest(graph, hInfo.z)
              /\ IF hInfo.isLight
                 THEN /\ hInfo.node = 0
                      /\ hInfo.light \in DOMAIN graph.lights
                      /\ MeetsLight(graph, hInfo.light)
                      /\ LightDistance(graph, hInfo.light) = hInfo.z
                 ELSE /\ hInfo.node \in DOMAIN graph.obj
                      /\ MeetsObject(graph, hInfo.node)
                      /\ ObjectDistance(graph, hInfo.node) = hInfo.z

\* C24: ShadowSearch(ray, hInfo, root, t_max) on a freshly initialised
\* record returns true iff some object of the graph meets the ray at a
\* distance strictly below t_max, whatever the order of the nodes and
\* whatever was recorded in hInfo earlier in the traversal.
C24_ShadowSearchFindsOccluder ==
    gpc \in {"lights", "shadowed"} =>
        (hitObj <=> \E n \in DOMAIN graph.obj :
                       /\ MeetsObject(graph, n)
                       /\ FLess(ObjectDistance(graph, n), F(TMax)))

\* C26: for every sample number below sampleMax and every offset in [0, 1),
\* GetSample returns ((x_n + off) mod 1, (y_n + off) mod 1): both coordinates
\* are in [0, 1), never 1; and the sample number is an index of the tables
\* built by GetGenerator(256).
C26_SampleInUnitSquare ==
    sampleCoords # NoCoords =>
        /\ sampleCoords.sampleNum \in 0 .. (SampleMaxMain - 1)
        /\ sampleCoords.first.num >= 0
        /\ sampleCoords.first.num < sampleCoords.first.den
        /\ sampleCoords.second.num >= 0
        /\ sampleCoords.second.num < sampleCoords.second.den
        /\ sampleCoords.first.num =
              Shifted(Halton(sampleCoords.sampleNum, 2), sampleCoords.offset).num
                  % sampleCoords.first.den
        /\ sampleCoords.second.num =
              Shifted(Halton(sampleCoords.sampleNum, 3), sampleCoords.offset).num
                  % sampleCoords.second.den

\* C27: in the medium branch of tracePath, for every free-flight distance
\* below hInfo.z that can be sampled, both the roulette outcome "terminate"
\* and the outcome "scatter" can occur with that distance.
C27_RouletteIndependent ==
    ppc = "traced" =>
        \A roll \in Rolls :
            FreeFlight(roll) < hitZ =>
                /\ \E r \in Rolls : FreeFlight(r) = FreeFlight(roll) /\ Absorbed(r)
                /\ \E r \in Rolls : FreeFlight(r) = FreeFlight(roll) /\ ~Absorbed(r)

\* C28: whenever tracePath or materialSample has called randomLight,
\* lightsRenderable is non-empty, the modulo did not divide by zero, and the
\* index it produced is within the vector.
C28_RandomLightInRange ==
    myRand.caller # "none" =>
        /\ Len(lightsRenderable) > 0
        /\ ~myRand.trapped
        /\ myRand.index \in 0 .. (Len(lightsRenderable) - 1)

\* C29: when tracePath returns to samplePixel, the z of the record
\* samplePixel reads (z = hInfo.z) is the distance TraceRay found for the
\* camera ray at bounce 0, +infinity (BIGFLOAT) when it hit nothing.
C29_ZOfCameraRay ==
    ppc = "done" => info.z = cameraZ

\* the workers that left RenderPixels through the loop condition: the last
\* index they drew is no pixel
LoopExits == {w \in Born : wpc[w] = "exit" /\ index[w] >= numPixels}

====
